---- MODULE Spec2Model ----
(***************************************************************************)
(* llama-stream: an HTTP reverse proxy that forwards chat-completion       *)
(* requests to a backend with stream = false and replays the complete      *)
(* JSON answer to the client as a simulated SSE stream.                    *)
(*                                                                         *)
(* Two specifications share the state:                                     *)
(*   SpecEmit  the generator _simulate_streaming, resumed chunk by chunk   *)
(*   Spec      the request handlers do_GET / do_POST of ReverseProxy       *)
(***************************************************************************)
EXTENDS Integers, Sequences, FiniteSets, TLC

VARIABLES
    config,         \* self.config: the loaded configuration (never mutated)
    now,            \* int(time.time()): the wall clock, in seconds
    response_data,  \* the parsed backend JSON handed to _simulate_streaming
    gen,            \* the generator object of _simulate_streaming
    yielded,        \* the chunks the generator has yielded so far, in order
    previous,       \* the outcome of an earlier run on the same response_data
    request,        \* the inbound request: self.command, self.path, self.headers, body
    outbound,       \* the calls made to the backend with requests.request, in order
    backend,        \* what the backend call produced, and how far its body was read
    client,         \* what has been written to the client socket, in order
    handler         \* where do_GET / do_POST stands: idle, returned, or raised

vars == <<config, now, response_data, gen, yielded, previous,
          request, outbound, backend, client, handler>>

emitVars == <<response_data, gen, yielded>>
proxyVars == <<request, outbound, backend, client, handler>>

-----------------------------------------------------------------------------
(* Bounds of the model *)

MaxLen == 3         \* longest message.content, in characters
MaxChunkSize == 2   \* largest configured streaming_chunk_size
MaxTime == 2        \* the clock runs from 1 to MaxTime
MaxBlocks == 2      \* longest backend body, in 8 KiB blocks of iter_content
MaxCut == 2         \* a client that disconnects does so after 0..MaxCut writes

(* Program constants *)

DefaultChunkSize == 50      \* self.config.get("streaming_chunk_size", 50)

None == "None"              \* Python's None where a string is expected

-----------------------------------------------------------------------------
(* Python helpers *)

Min(a, b) == IF a <= b THEN a ELSE b

\* list(range(start, stop, step)) for step > 0
RECURSIVE PyRange(_, _, _)
PyRange(start, stop, step) ==
    IF start >= stop THEN <<>>
    ELSE <<start>> \o PyRange(start + step, stop, step)

\* s[i:j] for 0 <= i <= j (0-based, j exclusive, clipped to len(s))
PySlice(s, i, j) ==
    IF i >= Len(s) THEN <<>> ELSE SubSeq(s, i + 1, Min(j, Len(s)))

-----------------------------------------------------------------------------
(* The configuration *)

TargetUrl == "http://backend:8080"
DefaultTargetUrl == "http://localhost:8000"

\* config.yaml as loaded: `set` is the set of keys the file gives
Configs ==
    {[set |-> {"target_url", "streaming_chunk_size"},
      target_url |-> TargetUrl, streaming_chunk_size |-> c] : c \in 1..MaxChunkSize}
    \cup {[set |-> {}, target_url |-> "", streaming_chunk_size |-> 0]}

\* self.config.get("streaming_chunk_size", 50)
streaming_chunk_size(cfg) ==
    IF "streaming_chunk_size" \in cfg.set THEN cfg.streaming_chunk_size
    ELSE DefaultChunkSize

-----------------------------------------------------------------------------
(* JSON values returned by the backend (the result of response.json())     *)

Chars == {"a", "b"}
Strings == UNION {[1..n -> Chars] : n \in 0..MaxLen}

\* message.get("content", ""): absent, null, a string, or a non-zero number
Contents ==
    {[t |-> "absent", s |-> <<>>], [t |-> "null", s |-> <<>>], [t |-> "num", s |-> <<>>]}
    \cup {[t |-> "str", s |-> s] : s \in Strings}

\* message.get("tool_calls", None): absent, null, or a list of tool calls
ToolCalls ==
    {[t |-> "absent", s |-> <<>>], [t |-> "null", s |-> <<>>]}
    \cup {[t |-> "list", s |-> s] : s \in {<<>>, <<"call_1">>, <<"call_1", "call_2">>}}

NoContent == [t |-> "absent", s |-> <<>>]
NoToolCalls == [t |-> "absent", s |-> <<>>]

MetaKeys == {"id", "object", "created", "model"}

\* One parsed JSON value.
\*   kind     "object", or "array" / "number" for a JSON value that is no object
\*   has      the top-level keys among id / object / created / model it has
\*   choices  "absent", "notlist" (not a list), "empty" ([]) or "list"
\*   first    choices[0]: "nondict", or a dict whose "message" is absent
\*            ("nomessage"), null ("nullmessage") or a dict ("message")
Doc(kind, has, choices, first, content, tool_calls) ==
    [kind |-> kind, has |-> has, id |-> "chatcmpl-123", object |-> "chat.completion",
     created |-> 0, model |-> "llama-3", choices |-> choices, first |-> first,
     content |-> content, tool_calls |-> tool_calls]

JsonValues ==
    {Doc(k, {}, "absent", "none", NoContent, NoToolCalls) : k \in {"array", "number"}}
    \cup {Doc("object", h, c, "none", NoContent, NoToolCalls) :
            h \in SUBSET MetaKeys, c \in {"absent", "notlist", "empty"}}
    \cup {Doc("object", h, "list", f, NoContent, NoToolCalls) :
            h \in SUBSET MetaKeys, f \in {"nondict", "nomessage", "nullmessage"}}
    \cup {Doc("object", h, "list", "message", c, t) :
            h \in SUBSET MetaKeys, c \in Contents, t \in ToolCalls}

NoDoc == Doc("none", {}, "absent", "none", NoContent, NoToolCalls)

\* Python truthiness of message.content and message.tool_calls
Truthy(v) == (v.t = "num") \/ (v.t \in {"str", "list"} /\ v.s # <<>>)

-----------------------------------------------------------------------------
(* _simulate_streaming                                                     *)

\* delta objects: `keys` is the set of keys the dict has
Delta(keys, content, tool_calls) ==
    [keys |-> keys, role |-> "assistant", content |-> content, tool_calls |-> tool_calls]

\* values of delta["content"]: a string, None, or json.dumps(<doc>)
StrContent(s) == [t |-> "str", s |-> s, doc |-> NoDoc]
NoneContent == [t |-> "null", s |-> <<>>, doc |-> NoDoc]
DumpsContent(d) == [t |-> "json", s |-> <<>>, doc |-> d]

EmptyDelta == Delta({}, NoneContent, NoToolCalls)

\* one yielded event: {id, object, created, model, choices: [{index: 0, delta, finish_reason}]}
Chunk(id, object, created, model, delta, finish_reason) ==
    [id |-> id, object |-> object, created |-> created, model |-> model,
     index |-> 0, delta |-> delta, finish_reason |-> finish_reason]

\* base_event_data with `created` always read from the clock
BaseChunk_StampNow(d, t0, delta, finish_reason) ==
    Chunk(IF "id" \in d.has THEN d.id ELSE "chatcmpl-default-id",
          IF "object" \in d.has THEN d.object ELSE "chat.completion.chunk",
          t0,
          IF "model" \in d.has THEN d.model ELSE "gpt-3.5-turbo-0613",
          delta, finish_reason)

\* base_event_data, built once when the generator is first resumed at time t0
BaseChunk(d, t0, delta, finish_reason) ==
    Chunk(IF "id" \in d.has THEN d.id ELSE "chatcmpl-default-id",
          IF "object" \in d.has THEN d.object ELSE "chat.completion.chunk",
          IF "created" \in d.has THEN d.created ELSE t0,
          IF "model" \in d.has THEN d.model ELSE "gpt-3.5-turbo-0613",
          delta, finish_reason)

\* the events of the `else` branch, each stamped when it is yielded
FallbackChunk(d, t, delta, finish_reason) ==
    Chunk(IF "id" \in d.has THEN d.id ELSE "chatcmpl-default-id",
          "chat.completion.chunk", t, "unknown-model", delta, finish_reason)

\* the `elif content:` branch: one event per slice, then the "stop" event
ContentChunks_SliceEnd(d, size, t0) ==
    LET content == d.content.s
        offsets == PyRange(0, Len(content), size)
    IN  [n \in 1..Len(offsets) |->
            LET i == offsets[n]
                text_chunk == StrContent(PySlice(content, i, size))
            IN  BaseChunk(d, t0,
                          IF i = 0 THEN Delta({"role", "content"}, text_chunk, NoToolCalls)
                          ELSE Delta({"content"}, text_chunk, NoToolCalls),
                          None)]
        \o <<BaseChunk(d, t0, EmptyDelta, "stop")>>

ContentChunks(d, size, t0) ==
    LET content == d.content.s
        offsets == PyRange(0, Len(content), size)
    IN  [n \in 1..Len(offsets) |->
            LET i == offsets[n]
                text_chunk == StrContent(PySlice(content, i, i + size))
            IN  BaseChunk(d, t0,
                          IF i = 0 THEN Delta({"role", "content"}, text_chunk, NoToolCalls)
                          ELSE Delta({"content"}, text_chunk, NoToolCalls),
                          None)]
        \o <<BaseChunk(d, t0, EmptyDelta, "stop")>>

\* the `if tool_calls:` branch: the tool calls in a single event
ToolCallChunks(d, t0) ==
    <<BaseChunk(d, t0, Delta({"role", "content", "tool_calls"}, NoneContent, d.tool_calls),
                "tool_calls")>>

\* the inner `else` branch announcing the role, as a first content event does
EmptyChunks_WithRole(d, t0) ==
    <<BaseChunk(d, t0, Delta({"role"}, NoneContent, NoToolCalls), "stop")>>

\* the inner `else` branch: empty content and no tool calls
EmptyChunks(d, t0) == <<BaseChunk(d, t0, EmptyDelta, "stop")>>

\* the outer `else` branch: the whole answer, serialised, then the "stop" event
FallbackChunks_StopFirst(d, t0, t1) ==
    <<FallbackChunk(d, t0, Delta({"content"}, DumpsContent(d), NoToolCalls), "stop"),
      FallbackChunk(d, t1, EmptyDelta, "stop")>>

FallbackChunks(d, t0, t1) ==
    <<FallbackChunk(d, t0, Delta({"content"}, DumpsContent(d), NoToolCalls), None),
      FallbackChunk(d, t1, EmptyDelta, "stop")>>

\* Which branch the generator takes on response_data, or the exception that
\* ends it before the first yield.
Branch_ContentFirst(d) ==
    IF d.kind = "number" THEN "TypeError"
    ELSE IF d.kind = "object" /\ d.choices = "list" THEN
        IF d.first = "nondict" THEN "AttributeError"
        ELSE IF d.first = "nullmessage" THEN "AttributeError"
        ELSE IF Truthy(d.content) THEN
            IF d.content.t = "num" THEN "TypeError" ELSE "content"
        ELSE IF Truthy(d.tool_calls) THEN "tool_calls"
        ELSE "empty"
    ELSE IF d.kind = "array" THEN "AttributeError"
    ELSE "fallback"

Branch(d) ==
    IF d.kind = "number" THEN "TypeError"                   \* "choices" in 5
    ELSE IF d.kind = "object" /\ d.choices = "list" THEN
        IF d.first = "nondict" THEN "AttributeError"        \* choice.get
        ELSE IF d.first = "nullmessage" THEN "AttributeError"   \* message.get
        ELSE IF Truthy(d.tool_calls) THEN "tool_calls"
        ELSE IF Truthy(d.content) THEN
            IF d.content.t = "num" THEN "TypeError"         \* len(content)
            ELSE "content"
        ELSE "empty"
    ELSE IF d.kind = "array" THEN "AttributeError"          \* response_data.get
    ELSE "fallback"

Exceptions == {"TypeError", "AttributeError"}

Result(yields, raised) == [yields |-> yields, raised |-> raised]

\* The whole run of the generator on response_data: the events it yields, in
\* order, and the exception that ends it ("none" when it returns).  t0 is the
\* clock when it is first resumed, t1 the clock when it is resumed again.
_simulate_streaming(d, cfg, t0, t1) ==
    LET branch == Branch(d)
    IN  CASE branch = "tool_calls" -> Result(ToolCallChunks(d, t0), "none")
          [] branch = "content" ->
                Result(ContentChunks(d, streaming_chunk_size(cfg), t0), "none")
          [] branch = "empty" -> Result(EmptyChunks(d, t0), "none")
          [] branch = "fallback" -> Result(FallbackChunks(d, t0, t1), "none")
          [] OTHER -> Result(<<>>, branch)

-----------------------------------------------------------------------------
(* Inbound requests                                                        *)

Absent == "<absent>"

\* a header mapping from (name, value-or-Absent) choices
Headers(choice) == [k \in {n \in DOMAIN choice : choice[n] # Absent} |-> choice[k]]

NoHeaders == Headers([k \in {} |-> Absent])

\* headers.get(name, default)
Get(headers, name, default) ==
    IF name \in DOMAIN headers THEN headers[name] ELSE default

InboundHeaders ==
    {Headers([Authorization |-> a, Accept |-> ac, Cookie |-> ck]
             @@ ("Content-Type" :> ct) @@ ("Content-Length" :> cl)) :
        a \in {Absent, "", "Bearer t0k"},
        ct \in {Absent, "", "application/json; charset=utf-8"},
        ac \in {Absent, "", "text/event-stream"},
        ck \in {Absent, "sid=1"},
        cl \in {Absent, "17"}}

PlainHeaders ==
    Headers([Authorization |-> "Bearer t0k", Accept |-> Absent, Cookie |-> Absent]
            @@ ("Content-Type" :> "application/json; charset=utf-8")
            @@ ("Content-Length" :> "17"))

\* The bytes of a POST body, by what decoding and json.loads make of them:
\*   "undecodable"  not valid UTF-8
\*   "invalid"      text that is not JSON
\*   "array", "number"   JSON, but no object
\*   "object"       a JSON object with the keys `keys`, whose "stream" is `stream`
Body(kind, keys, stream) == [kind |-> kind, keys |-> keys, stream |-> stream]

NoBody == Body("none", {}, FALSE)

PostBodies ==
    {Body(k, {}, FALSE) : k \in {"undecodable", "invalid", "array", "number"}}
    \cup {Body("object", rest, FALSE) : rest \in {{}, {"model", "messages"}}}
    \cup {Body("object", rest \cup {"stream"}, st) :
            rest \in {{}, {"model", "messages"}}, st \in BOOLEAN}

PlainBody == Body("object", {"model", "messages", "stream"}, TRUE)

Paths == {"/v1/models", "/v1/chat/completions"}

Request(method, path, headers, body) ==
    [method |-> method, path |-> path, headers |-> headers, body |-> body]

NoRequest == Request("", "", NoHeaders, NoBody)

GetRequests == {Request("GET", p, h, NoBody) : p \in Paths, h \in InboundHeaders}
PostRequests == {Request("POST", p, h, b) : p \in Paths, h \in InboundHeaders, b \in PostBodies}

PlainGet == Request("GET", "/v1/models", PlainHeaders, NoBody)
PlainPost == Request("POST", "/v1/chat/completions", PlainHeaders, PlainBody)

-----------------------------------------------------------------------------
(* What the backend call produces                                          *)

\* requests.exceptions: the classes each exception is an instance of
BasesOf(exc) ==
    CASE exc = "SSLError" -> {"SSLError", "ConnectionError", "RequestException"}
      [] exc = "ConnectionError" -> {"ConnectionError", "RequestException"}
      [] exc = "ConnectTimeout" ->
            {"ConnectTimeout", "ConnectionError", "Timeout", "RequestException"}
      [] exc = "ReadTimeout" -> {"ReadTimeout", "Timeout", "RequestException"}
      [] exc = "TooManyRedirects" -> {"TooManyRedirects", "RequestException"}
      [] OTHER -> {exc}

IsInstance(exc, class) == class \in BasesOf(exc)

BackendFailures ==
    {"SSLError", "ConnectionError", "ConnectTimeout", "ReadTimeout", "TooManyRedirects"}

\* a backend body: its bytes as `blocks` blocks of 8 KiB, and what
\* response.json() makes of them (kind "invalid": it raises JSONDecodeError)
InvalidJson == Doc("invalid", {}, "absent", "none", NoContent, NoToolCalls)

BackendBody(blocks, doc) == [blocks |-> blocks, doc |-> doc]

\* the bytes of blocks i..j of the body
RECURSIVE Bytes(_, _)
Bytes(i, j) == IF i > j THEN <<>> ELSE <<i>> \o Bytes(i + 1, j)

\* response.iter_content(chunk_size=8192)
iter_content(body) == [i \in 1..body.blocks |-> Bytes(i, i)]

\* response.content
content_of(body) == Bytes(1, body.blocks)

Outcome(exc, status, headers, body) ==
    [exc |-> exc, status |-> status, headers |-> headers, body |-> body]

NoOutcome == Outcome("nocall", 0, NoHeaders, BackendBody(0, NoDoc))

Statuses == {200, 201, 404, 500}
ContentTypes == {Absent, "application/json", "application/json; charset=utf-8", "text/html"}
ExtraHeaders == {{}, {"Content-Length", "date"}, {"Content-Length", "date", "Set-Cookie"}}

BackendHeaders(ct, extra) ==
    Headers(("Content-Type" :> ct)
            @@ [k \in {"Content-Length", "date", "Set-Cookie"} |->
                    IF k \in extra THEN "v-" \o k ELSE Absent])

PlainDoc == Doc("object", MetaKeys, "list", "message", [t |-> "str", s |-> <<"a", "b">>],
                NoToolCalls)

\* answers whose body is only relayed: every status and header combination
RelayedResponses ==
    {Outcome("none", st, BackendHeaders(ct, ex), body) :
        st \in Statuses, ct \in ContentTypes, ex \in ExtraHeaders,
        body \in {BackendBody(n, InvalidJson) : n \in 0..MaxBlocks}
                 \cup {BackendBody(1, PlainDoc)}}

\* 200 answers announced as JSON, over every JSON value
JsonResponses ==
    {Outcome("none", 200, BackendHeaders(ct, {"Content-Length", "date", "Set-Cookie"}),
             BackendBody(1, d)) :
        ct \in {"application/json", "application/json; charset=utf-8"}, d \in JsonValues}

Failures == {Outcome(e, 0, NoHeaders, BackendBody(0, NoDoc)) : e \in BackendFailures}

Outcomes == Failures \cup RelayedResponses \cup JsonResponses

PlainOutcomes ==
    Failures
    \cup {Outcome("none", st, BackendHeaders("application/json", {"Content-Length", "date"}),
                  BackendBody(1, PlainDoc)) : st \in {200, 500}}

\* whether and when the client goes away: after `after` successful writes
Cut(never, after) == [never |-> never, after |-> after]
Cuts == {Cut(TRUE, 0)} \cup {Cut(FALSE, n) : n \in 0..MaxCut}

\* The exchanges explored: the plain request against every backend outcome
\* and every disconnect, and every request against the plain outcomes.
GetExchanges ==
    ({PlainGet} \X (Failures \cup RelayedResponses) \X Cuts)
    \cup (GetRequests \X PlainOutcomes \X {Cut(TRUE, 0)})

PostExchanges ==
    ({PlainPost} \X Outcomes \X Cuts)
    \cup (PostRequests \X PlainOutcomes \X {Cut(TRUE, 0)})

-----------------------------------------------------------------------------
(* Writes to the client                                                    *)

NoChunk == Chunk("", "", 0, "", EmptyDelta, None)

Write(type, status, headers, chunk, bytes) ==
    [type |-> type, status |-> status, headers |-> headers, chunk |-> chunk, bytes |-> bytes]

\* send_response(status); send_header(k, v) for each of headers; end_headers()
ResponseHead(status, headers) == Write("head", status, headers, NoChunk, <<>>)
\* send_error(status, message)
ErrorResponse(status) == Write("error", status, NoHeaders, NoChunk, <<>>)
\* wfile.write(f"data: {json.dumps(chunk)}\n\n".encode('utf-8'))
Event(chunk) == Write("event", 0, NoHeaders, chunk, <<>>)
\* wfile.write("data: [DONE]\n\n".encode('utf-8'))
Done == Write("done", 0, NoHeaders, NoChunk, <<>>)
\* wfile.write(chunk) of the backend's bytes
Raw(bytes) == Write("raw", 0, NoHeaders, NoChunk, bytes)

\* What a handler sets out to do: the writes, in order, then how it ends
\* ("none": it returns; otherwise the exception it raises after the writes).
Plan(writes, exc) == [writes |-> writes, exc |-> exc]

\* the writes that reach the client before it goes away
Written(plan, cut) ==
    IF cut.never \/ cut.after >= Len(plan.writes) THEN plan.writes
    ELSE SubSeq(plan.writes, 1, cut.after)

\* how the handler ends: a failed write raises out of it
Ending(plan, cut) ==
    IF cut.never \/ cut.after >= Len(plan.writes) THEN plan.exc
    ELSE "BrokenPipeError"

\* the number of writes the handler attempts
Attempted(plan, cut) ==
    IF cut.never \/ cut.after >= Len(plan.writes) THEN Len(plan.writes)
    ELSE cut.after + 1

-----------------------------------------------------------------------------
(* _perform_request                                                        *)

\* self._get_target_url()
_get_target_url(cfg) ==
    IF "target_url" \in cfg.set THEN cfg.target_url ELSE DefaultTargetUrl

\* forward_headers without the `if v` filter: empty values are kept
forward_headers_KeepEmpty(headers) ==
    [Authorization |-> Get(headers, "Authorization", ""),
     Accept |-> Get(headers, "Accept", "*/*")]
    @@ ("Content-Type" :> Get(headers, "Content-Type", "application/json"))

\* forward_headers: the three headers, with their defaults, empty ones dropped
forward_headers(headers) ==
    LET all == [Authorization |-> Get(headers, "Authorization", ""),
                Accept |-> Get(headers, "Accept", "*/*")]
               @@ ("Content-Type" :> Get(headers, "Content-Type", "application/json"))
    IN  [k \in {n \in DOMAIN all : all[n] # ""} |-> all[k]]

\* requests.request(method, f"{target_url}{path}", headers=forward_headers,
\*                  json=json_data, ..., stream=True)
Call(method, url, headers, json_data) ==
    [method |-> method, url |-> url, headers |-> headers, json |-> json_data]

\* the status of the error response, by the first `except` clause that matches
ErrorStatus(exc) ==
    IF IsInstance(exc, "SSLError") THEN 502
    ELSE IF IsInstance(exc, "ConnectionError") THEN 503
    ELSE IF IsInstance(exc, "Timeout") THEN 504
    ELSE 500

\* _perform_request, on failure: send_error(...) and return None
FailurePlan(outcome) == Plan(<<ErrorResponse(ErrorStatus(outcome.exc))>>, "none")

\* `if response:` -- None is falsy, and a requests.Response is truthy exactly
\* when it is ok, i.e. its status is not a 4xx or 5xx
ResponseTruthy(outcome) ==
    outcome.exc = "none" /\ ~(400 <= outcome.status /\ outcome.status < 600)

-----------------------------------------------------------------------------
(* do_GET and do_POST                                                      *)

\* key.lower()
Lower(key) ==
    CASE key = "Content-Type" -> "content-type"
      [] key = "Content-Length" -> "content-length"
      [] key = "Set-Cookie" -> "set-cookie"
      [] OTHER -> key

\* the backend headers that are sent on to the client
AllowListed(headers) ==
    [k \in {n \in DOMAIN headers : Lower(n) \in {"content-type", "content-length", "date"}}
        |-> headers[k]]

\* send_response(response.status_code), the allow-listed headers, end_headers(),
\* then the body block by block
Passthrough(outcome) ==
    <<ResponseHead(outcome.status, AllowListed(outcome.headers))>>
    \o [i \in 1..outcome.body.blocks |-> Raw(iter_content(outcome.body)[i])]

\* 'application/json' in response.headers.get('Content-Type', '')
IsJsonContentType(headers) ==
    Get(headers, "Content-Type", "")
        \in {"application/json", "application/json; charset=utf-8"}

\* status 200 and a JSON Content-Type: the answer is replayed as a stream
Transformable(outcome) == outcome.status = 200 /\ IsJsonContentType(outcome.headers)

SseHeaders ==
    [k \in {"Content-Type", "Cache-Control", "Connection"} |->
        CASE k = "Content-Type" -> "text/event-stream"
          [] k = "Cache-Control" -> "no-cache"
          [] OTHER -> "close"]

\* the SSE branch of do_POST: the head, then either the raw content (the body
\* is not JSON) or one event per yielded chunk and the [DONE] event
SsePlan_DoneInLoop(outcome, cfg, t0, t1) ==
    LET head == ResponseHead(200, SseHeaders)
        doc == outcome.body.doc
        run == _simulate_streaming(doc, cfg, t0, t1)
        events == [k \in 1..(2 * Len(run.yields)) |->
                    IF k % 2 = 1 THEN Event(run.yields[(k + 1) \div 2]) ELSE Done]
    IN  IF doc.kind = "invalid" THEN Plan(<<head, Raw(content_of(outcome.body))>>, "none")
        ELSE IF run.raised = "none" THEN Plan(<<head>> \o events, "none")
        ELSE Plan(<<head>> \o events, run.raised)

SsePlan(outcome, cfg, t0, t1) ==
    LET head == ResponseHead(200, SseHeaders)
        doc == outcome.body.doc
        run == _simulate_streaming(doc, cfg, t0, t1)
        events == [k \in 1..Len(run.yields) |-> Event(run.yields[k])]
    IN  IF doc.kind = "invalid" THEN Plan(<<head, Raw(content_of(outcome.body))>>, "none")
        ELSE IF run.raised = "none" THEN Plan(<<head>> \o events \o <<Done>>, "none")
        ELSE Plan(<<head>> \o events, run.raised)

\* what follows `response = self._perform_request(...)` in do_GET
GetResponsePlan(outcome) ==
    IF outcome.exc # "none" THEN FailurePlan(outcome)
    ELSE IF ResponseTruthy(outcome) THEN Plan(Passthrough(outcome), "none")
    ELSE Plan(<<>>, "none")

\* what follows `response = self._perform_request(...)` in do_POST
PostResponsePlan(outcome, cfg, t0, t1) ==
    IF outcome.exc # "none" THEN FailurePlan(outcome)
    ELSE IF ResponseTruthy(outcome) THEN
        IF Transformable(outcome) THEN SsePlan(outcome, cfg, t0, t1)
        ELSE Plan(Passthrough(outcome), "none")
    ELSE Plan(<<>>, "none")

\* do_GET forwards only /v1/models
GetForwards(req) == req.path = "/v1/models"

\* How do_POST ends before it forwards anything, "forward" if it forwards:
\* int(self.headers['Content-Length']), .decode('utf-8'), json.loads,
\* request_data['stream'] = False
PostParse(req) ==
    IF "Content-Length" \notin DOMAIN req.headers THEN "TypeError"
    ELSE IF req.body.kind = "undecodable" THEN "UnicodeDecodeError"
    ELSE IF req.body.kind = "invalid" THEN "400"
    ELSE IF req.body.kind # "object" THEN "TypeError"
    ELSE "forward"

\* a request body rebuilt as only {"stream": false}
ForceStreamFalse_OnlyStream(body) == Body(body.kind, {"stream"}, FALSE)

\* request_data after request_data['stream'] = False
ForceStreamFalse(body) == Body(body.kind, body.keys \cup {"stream"}, FALSE)

\* how far the backend body has been read when the handler ends
BodyRead(outcome, plan, cut, sse) ==
    IF outcome.exc # "none" THEN "none"
    ELSE IF ~ResponseTruthy(outcome) THEN "unread"
    ELSE IF Ending(plan, cut) # "BrokenPipeError" THEN "consumed"
    ELSE IF Attempted(plan, cut) <= 1 THEN "unread"
    ELSE IF sse THEN "consumed"
    \* each attempted body write was fed by one block fetched from iter_content
    ELSE IF Attempted(plan, cut) - 1 >= outcome.body.blocks THEN "consumed"
    ELSE "partial"

\* the generator after the SSE loop: how many chunks were requested from it
GenAfter(run, plan, cut, t0) ==
    LET n == Len(run.yields)
        a == Attempted(plan, cut)
        k == IF a - 1 < n THEN a - 1 ELSE n
    IN  [yielded |-> SubSeq(run.yields, 1, k),
         gen |-> [state |-> IF run.raised # "none" THEN "raised"
                            ELSE IF a > n + 1 THEN "done"
                            ELSE "suspended",
                  t0 |-> t0]]

-----------------------------------------------------------------------------
(* SpecEmit: the generator on its own                                      *)

NewGen == [state |-> "created", t0 |-> 0]

\* no earlier run of the generator on this response_data
NoRun == [state |-> "none", yielded |-> <<>>]

InitEmit ==
    /\ config \in Configs
    /\ now = 1
    /\ response_data \in JsonValues
    /\ gen = NewGen
    /\ yielded = <<>>
    /\ previous = NoRun
    /\ request = NoRequest
    /\ outbound = <<>>
    /\ backend = [outcome |-> NoOutcome, read |-> "none"]
    /\ client = <<>>
    /\ handler = [state |-> "idle", exc |-> "none"]

\* time.time() advances
Tick ==
    /\ now < MaxTime
    /\ now' = now + 1
    /\ UNCHANGED <<config, response_data, gen, yielded, previous, proxyVars>>

\* next(generator) on a generator that starts over instead of returning
gen_next_StartOver ==
    /\ gen.state \in {"created", "suspended"}
    /\ LET t0 == IF gen.state = "created" THEN now ELSE gen.t0
           run == _simulate_streaming(response_data, config, t0, now)
           k == Len(yielded)
       IN  IF k < Len(run.yields)
           THEN /\ yielded' = Append(yielded, run.yields[k + 1])
                /\ gen' = [state |-> "suspended", t0 |-> t0]
           ELSE /\ yielded' = <<>>
                /\ gen' = [state |-> IF run.raised = "none" THEN "created" ELSE "raised",
                           t0 |-> 0]
    /\ UNCHANGED <<config, now, response_data, previous, proxyVars>>

\* next(generator): run to the next yield, to the return, or to an exception
gen_next ==
    /\ gen.state \in {"created", "suspended"}
    /\ LET t0 == IF gen.state = "created" THEN now ELSE gen.t0
           run == _simulate_streaming(response_data, config, t0, now)
           k == Len(yielded)
       IN  IF k < Len(run.yields)
           THEN /\ yielded' = Append(yielded, run.yields[k + 1])
                /\ gen' = [state |-> "suspended", t0 |-> t0]
           ELSE /\ yielded' = yielded
                /\ gen' = [state |-> IF run.raised = "none" THEN "done" ELSE "raised",
                           t0 |-> t0]
    /\ UNCHANGED <<config, now, response_data, previous, proxyVars>>

NextEmit == Tick \/ gen_next

SpecEmit == InitEmit /\ [][NextEmit]_vars

\* the generator is resumed until it ends: `for chunk in
\* self._simulate_streaming(response_data)` keeps calling next()
FairSpecEmit == SpecEmit /\ WF_vars(gen_next)

\* self._simulate_streaming(response_data) called again on the same value,
\* once the first generator has ended; the first run is kept for comparison
simulate_again ==
    /\ gen.state \in {"done", "raised"}
    /\ previous = NoRun
    /\ previous' = [state |-> gen.state, yielded |-> yielded]
    /\ gen' = NewGen
    /\ yielded' = <<>>
    /\ UNCHANGED <<config, now, response_data, proxyVars>>

NextAgain == Tick \/ gen_next \/ simulate_again

SpecAgain == InitEmit /\ [][NextAgain]_vars

-----------------------------------------------------------------------------
(* Spec: one handler instance serving its request                          *)

Idle == [state |-> "idle", exc |-> "none"]

Backend(outcome, read) == [outcome |-> outcome, read |-> read]

Init ==
    /\ config \in Configs
    /\ now = 1
    /\ response_data = NoDoc
    /\ gen = NewGen
    /\ yielded = <<>>
    /\ previous = NoRun
    /\ request = NoRequest
    /\ outbound = <<>>
    /\ backend = Backend(NoOutcome, "none")
    /\ client = <<>>
    /\ handler = Idle

Ended(plan, cut) ==
    [state |-> IF Ending(plan, cut) = "none" THEN "returned" ELSE "raised",
     exc |-> Ending(plan, cut)]

do_GET ==
    /\ handler.state = "idle"
    /\ \E x \in GetExchanges :
        LET req == x[1]
            outcome == x[2]
            cut == x[3]
            plan == IF GetForwards(req) THEN GetResponsePlan(outcome)
                    ELSE Plan(<<ErrorResponse(404)>>, "none")
        IN  /\ request' = req
            /\ outbound' = IF GetForwards(req)
                           THEN <<Call("GET", _get_target_url(config) \o req.path,
                                       forward_headers(req.headers), NoBody)>>
                           ELSE <<>>
            /\ backend' = IF GetForwards(req)
                          THEN Backend(outcome, BodyRead(outcome, plan, cut, FALSE))
                          ELSE Backend(NoOutcome, "none")
            /\ client' = Written(plan, cut)
            /\ handler' = Ended(plan, cut)
    /\ UNCHANGED <<config, now, response_data, gen, yielded, previous>>

do_POST ==
    /\ handler.state = "idle"
    /\ \E x \in PostExchanges, t1 \in now..MaxTime :
        LET req == x[1]
            outcome == x[2]
            cut == x[3]
            parse == PostParse(req)
            forwards == parse = "forward"
            sse == /\ forwards
                   /\ outcome.exc = "none"
                   /\ ResponseTruthy(outcome)
                   /\ Transformable(outcome)
            plan == IF forwards THEN PostResponsePlan(outcome, config, now, t1)
                    ELSE IF parse = "400" THEN Plan(<<ErrorResponse(400)>>, "none")
                    ELSE Plan(<<>>, parse)
            \* response.json() is reached once the head has been written
            parsed == sse /\ Len(Written(plan, cut)) >= 1 /\ outcome.body.doc.kind # "invalid"
            run == _simulate_streaming(outcome.body.doc, config, now, t1)
            after == GenAfter(run, plan, cut, now)
        IN  /\ (t1 > now) => (parsed /\ Len(after.yielded) = 2
                              /\ Branch(outcome.body.doc) = "fallback")
            /\ request' = req
            /\ outbound' = IF forwards
                           THEN <<Call("POST", _get_target_url(config) \o req.path,
                                       forward_headers(req.headers),
                                       ForceStreamFalse(req.body))>>
                           ELSE <<>>
            /\ backend' = IF forwards
                          THEN Backend(outcome, BodyRead(outcome, plan, cut, sse))
                          ELSE Backend(NoOutcome, "none")
            /\ client' = Written(plan, cut)
            /\ handler' = Ended(plan, cut)
            /\ response_data' = IF parsed THEN outcome.body.doc ELSE NoDoc
            /\ yielded' = IF parsed THEN after.yielded ELSE <<>>
            /\ gen' = IF parsed THEN after.gen ELSE NewGen
            /\ now' = t1
    /\ UNCHANGED <<config, previous>>

Next == do_GET \/ do_POST

Spec == Init /\ [][Next]_vars

-----------------------------------------------------------------------------
(* Shapes of a completion, read off the JSON value itself                  *)

HasFirstMessage(d) ==
    d.kind = "object" /\ d.choices = "list" /\ d.first \in {"nomessage", "message"}

\* choices[0].message.tool_calls is present and non-empty
ToolCallShape(d) ==
    HasFirstMessage(d) /\ d.tool_calls.t = "list" /\ Len(d.tool_calls.s) >= 1

\* no tool calls, and message.content is a string of length >= 1
ContentShape(d) ==
    HasFirstMessage(d) /\ ~ToolCallShape(d) /\ d.content.t = "str" /\ Len(d.content.s) >= 1

\* no tool calls, and message.content is empty, null or absent
EmptyContentShape(d) ==
    HasFirstMessage(d) /\ ~ToolCallShape(d)
    /\ (d.content.t \in {"absent", "null"} \/ (d.content.t = "str" /\ d.content.s = <<>>))

\* `choices` is missing, not a list, or empty
NoChoicesShape(d) ==
    d.kind = "object" /\ d.choices \in {"absent", "notlist", "empty"}

CeilDiv(a, b) == (a + b - 1) \div b

\* the concatenation of a sequence of strings
RECURSIVE Concat(_)
Concat(parts) ==
    IF parts = <<>> THEN <<>> ELSE Head(parts) \o Concat(Tail(parts))

-----------------------------------------------------------------------------
(* Claims about _simulate_streaming, checked under SpecEmit                *)

\* C1: for a completion without tool calls whose content is a string of
\* length L >= 1, and chunk size C > 0, the generator yields ceil(L/C) + 1
\* events: ceil(L/C) content events carrying consecutive, non-overlapping
\* substrings of length C (the last of length 1..C), then one terminal event;
\* the content events' delta.content, concatenated in order, is the content.
C1_ContentChunking ==
    (gen.state = "done" /\ ContentShape(response_data)) =>
        LET content == response_data.content.s
            L == Len(content)
            C == streaming_chunk_size(config)
            n == CeilDiv(L, C)
        IN  /\ C > 0
            /\ Len(yielded) = n + 1
            /\ \A k \in 1..n :
                /\ "content" \in yielded[k].delta.keys
                /\ yielded[k].delta.content.t = "str"
                /\ yielded[k].delta.content.s =
                        SubSeq(content, (k - 1) * C + 1, Min(k * C, L))
                /\ k < n => Len(yielded[k].delta.content.s) = C
                /\ k = n => Len(yielded[k].delta.content.s) \in 1..C
            /\ yielded[n + 1].delta.keys = {}
            /\ yielded[n + 1].finish_reason = "stop"
            /\ Concat([k \in 1..n |-> yielded[k].delta.content.s]) = content

\* C1 witness: a content of 3 characters cut with chunk size 2 has been
\* streamed to the end (a full slice, a shorter last slice, the terminal event)
C1_Witness ==
    /\ gen.state = "done"
    /\ ContentShape(response_data)
    /\ Len(response_data.content.s) = 3
    /\ streaming_chunk_size(config) = 2
    /\ Len(yielded) = 3

\* C2: in the sequence yielded for a tool-call, content, empty-content or
\* missing/empty-choices completion, exactly the last event has a non-null
\* finish_reason: "tool_calls" in the tool-call branch, "stop" otherwise.
C2_FinishReasonOnlyLast ==
    /\ \A k \in 1..(Len(yielded) - 1) : yielded[k].finish_reason = None
    /\ (gen.state = "done" /\ (ToolCallShape(response_data) \/ ContentShape(response_data)
                               \/ EmptyContentShape(response_data)
                               \/ NoChoicesShape(response_data))) =>
            /\ Len(yielded) >= 1
            /\ yielded[Len(yielded)].finish_reason =
                    IF ToolCallShape(response_data) THEN "tool_calls" ELSE "stop"

\* C2 witness: the two-event answer to a completion without choices is complete
C2_Witness ==
    /\ gen.state = "done"
    /\ NoChoicesShape(response_data)
    /\ Len(yielded) = 2
    /\ yielded[2].finish_reason = "stop"

\* C8: when choices[0].message.tool_calls is present and non-empty, whatever
\* message.content is, the generator yields exactly one event, with
\* delta = {role: "assistant", content: null, tool_calls: <the input array>}
\* and finish_reason "tool_calls"; no content event, no "stop" event.
C8_ToolCallsSingleChunk ==
    ToolCallShape(response_data) =>
        /\ Len(yielded) <= 1
        /\ gen.state # "raised"
        /\ gen.state \in {"suspended", "done"} =>
            /\ Len(yielded) = 1
            /\ yielded[1].delta.keys = {"role", "content", "tool_calls"}
            /\ yielded[1].delta.role = "assistant"
            /\ yielded[1].delta.content = NoneContent
            /\ yielded[1].delta.tool_calls = response_data.tool_calls
            /\ yielded[1].finish_reason = "tool_calls"

\* C8 witness: a completion with tool calls and a non-empty content string
\* has been emitted to the end
C8_Witness ==
    /\ gen.state = "done"
    /\ ToolCallShape(response_data)
    /\ response_data.content.t = "str" /\ Len(response_data.content.s) >= 1
    /\ Len(yielded) = 1

-----------------------------------------------------------------------------
(* Claims about do_GET / do_POST, checked under Spec                       *)

Handled(method) == handler.state # "idle" /\ request.method = method

\* the backend was called and answered with a response
Answered == Len(outbound) = 1 /\ backend.outcome.exc = "none"

\* the positions in the client's stream of the writes of one type
Positions(type) == {i \in 1..Len(client) : client[i].type = type}

\* the body bytes the client received after the head, in order
ReceivedBytes == Concat([i \in 1..(Len(client) - 1) |-> client[i + 1].bytes])

\* the client received the backend response as it is: its status, its
\* content-type / content-length / date headers and no other, its bytes,
\* and nothing in SSE framing
ReceivedAsIs ==
    /\ Len(client) >= 1
    /\ client[1].type = "head"
    /\ client[1].status = backend.outcome.status
    /\ client[1].headers = AllowListed(backend.outcome.headers)
    /\ \A i \in 2..Len(client) : client[i].type = "raw"
    /\ ReceivedBytes = content_of(backend.outcome.body)

\* C3 as claimed: for every POST whose backend response has status 200 and a
\* JSON Content-Type, the client receives `data: [DONE]` exactly once, after
\* every chunk event.
C3_DoneExactlyOnce ==
    (Handled("POST") /\ Answered /\ Transformable(backend.outcome)
     /\ handler.state = "returned") =>
        /\ Cardinality(Positions("done")) = 1
        /\ Positions("done") = {Len(client)}

\* C3 as amended: for such a POST, `data: [DONE]` is written at most once and
\* nothing is written after it; it is written exactly when the body parses as
\* JSON and the handler returns normally, and then the events before it are
\* the chunks of the completion, all of them, in the order they were yielded.
C3_DoneAtMostOnceLast ==
    (Handled("POST") /\ Answered /\ Transformable(backend.outcome)) =>
        /\ Cardinality(Positions("done")) <= 1
        /\ Positions("done") \subseteq {Len(client)}
        /\ (Positions("done") # {}) <=>
                (handler.state = "returned" /\ backend.outcome.body.doc.kind # "invalid")
        /\ (Positions("done") # {}) =>
            /\ gen.state = "done"
            /\ Len(client) = Len(yielded) + 2
            /\ \A k \in 1..Len(yielded) : client[k + 1] = Event(yielded[k])

\* C3 witness: a transformed answer of three events was written, then [DONE]
C3_Witness ==
    /\ Handled("POST") /\ Answered /\ Transformable(backend.outcome)
    /\ handler.state = "returned"
    /\ Len(yielded) = 3
    /\ Len(client) = 5
    /\ client[5] = Done

\* C4: a forwarded POST answered with a status other than 200, or with 200
\* and a non-JSON Content-Type, reaches the client as it is: the backend's
\* status, only its content-type / content-length / date headers, its body
\* bytes unmodified, no SSE framing.
C4_PassthroughAsIs ==
    (Handled("POST") /\ Answered /\ ~Transformable(backend.outcome)
     /\ handler.state = "returned") => ReceivedAsIs

\* C5: when the backend call fails, the client receives exactly one error
\* response and nothing else, after a single outbound attempt: 502 for a TLS
\* error, 503 for a refused connection, 504 for a timeout while connecting
\* or while waiting for the response, 500 for any other fault.
C5_ErrorMapping ==
    (handler.state = "returned" /\ Len(outbound) >= 1 /\ backend.outcome.exc # "none") =>
        /\ Len(outbound) = 1
        /\ client = <<ErrorResponse(
                CASE backend.outcome.exc = "SSLError" -> 502
                  [] backend.outcome.exc = "ConnectionError" -> 503
                  [] backend.outcome.exc \in {"ConnectTimeout", "ReadTimeout"} -> 504
                  [] OTHER -> 500)>>

\* C6: a POST whose body is not valid JSON is answered with 400, and no
\* outbound request is made for it.
C6_InvalidJson400 ==
    (Handled("POST") /\ "Content-Length" \in DOMAIN request.headers
     /\ request.body.kind \in {"undecodable", "invalid"}
     /\ handler.exc # "BrokenPipeError") =>
        /\ client = <<ErrorResponse(400)>>
        /\ outbound = <<>>

\* C7: a POST whose body is valid JSON, of any kind of JSON value and with
\* any or no `stream`, is forwarded exactly once, with `stream` false in the
\* forwarded body.
C7_ForwardedOnceStreamFalse ==
    (Handled("POST") /\ "Content-Length" \in DOMAIN request.headers
     /\ request.body.kind \in {"object", "array", "number"}) =>
        /\ Len(outbound) = 1
        /\ outbound[1].method = "POST"
        /\ "stream" \in outbound[1].json.keys
        /\ outbound[1].json.stream = FALSE

\* C9: a 200 answer with a JSON Content-Type whose body does not parse as
\* JSON is passed through: the backend's status, its allow-listed headers and
\* its bytes, no SSE response headers or framing, and the request succeeds.
C9_UnparsableFallsBack ==
    (Handled("POST") /\ Answered /\ Transformable(backend.outcome)
     /\ backend.outcome.body.doc.kind = "invalid"
     /\ handler.exc # "BrokenPipeError") =>
        /\ handler.state = "returned"
        /\ ReceivedAsIs

\* C10: a GET for a path other than /v1/models is answered with 404 and not
\* forwarded; a GET for /v1/models is forwarded once and the backend response
\* is passed through as it is, never replayed as SSE events.
C10_GetRouting ==
    (Handled("GET") /\ handler.state = "returned") =>
        IF request.path # "/v1/models"
        THEN client = <<ErrorResponse(404)>> /\ outbound = <<>>
        ELSE /\ Len(outbound) = 1
             /\ outbound[1].method = "GET"
             /\ backend.outcome.exc = "none" => ReceivedAsIs

-----------------------------------------------------------------------------
(* Claims about the chunk envelope, checked under SpecEmit                 *)

\* C11: every chunk yielded for a completion carries object =
\* "chat.completion.chunk" and the same id, created and model as every other
\* chunk of that completion; id, created and model are the source's whenever
\* the source has them, in every branch (the missing/empty-choices one
\* included), and the defaults only when the source lacks them.
C11_SharedEnvelope ==
    response_data.kind = "object" =>
        \A k \in 1..Len(yielded) :
            /\ yielded[k].object = "chat.completion.chunk"
            /\ yielded[k].id = yielded[1].id
            /\ yielded[k].created = yielded[1].created
            /\ yielded[k].model = yielded[1].model
            /\ yielded[k].id = IF "id" \in response_data.has
                               THEN response_data.id ELSE "chatcmpl-default-id"
            /\ "created" \in response_data.has =>
                   yielded[k].created = response_data.created
            /\ "model" \in response_data.has =>
                   yielded[k].model = response_data.model

-----------------------------------------------------------------------------
(* Claims about re-running the generator, checked under SpecAgain          *)

\* both runs of the generator on response_data have ended
BothRunsEnded == previous # NoRun /\ gen.state \in {"done", "raised"}

\* a chunk without its `created` stamp
Unstamped(chunk) == [chunk EXCEPT !.created = 0]

\* C12 (as stated): two runs of _simulate_streaming on the same completion,
\* at any two times and for any shape of it, yield identical chunk sequences.
C12_RerunIdentical ==
    BothRunsEnded => yielded = previous.yielded

\* C12 (amended): two runs on the same completion end the same way and yield
\* equally many chunks that agree in everything but `created`; the two
\* sequences are identical when the completion has a non-empty `choices`
\* list and a `created` field.
C12_RerunIdenticalUpToCreated ==
    BothRunsEnded =>
        /\ gen.state = previous.state
        /\ Len(yielded) = Len(previous.yielded)
        /\ \A k \in 1..Len(yielded) :
               Unstamped(yielded[k]) = Unstamped(previous.yielded[k])
        /\ (response_data.kind = "object" /\ response_data.choices = "list"
            /\ "created" \in response_data.has) =>
               yielded = previous.yielded

\* C12 witness: a content completion that has `created` was streamed twice,
\* the second time at a later clock reading, two chunks or more each time
C12_Witness ==
    /\ BothRunsEnded
    /\ gen.state = "done"
    /\ ContentShape(response_data)
    /\ "created" \in response_data.has
    /\ Len(yielded) >= 2
    /\ gen.t0 > 1

-----------------------------------------------------------------------------
(* Claims about the handlers as a whole, checked under Spec                *)

\* C13: no fault escapes a handler: for every GET or POST whose client stays
\* connected — a POST without Content-Length, a POST whose JSON body is not
\* an object, and a 200/JSON backend body that parses to a non-object or has
\* a null message included — do_GET / do_POST returns normally and does not
\* end with an uncaught exception.
C13_NoFaultEscapes ==
    (handler.state # "idle" /\ handler.exc # "BrokenPipeError") =>
        /\ handler.state = "returned"
        /\ handler.exc = "none"

\* C14: whenever _perform_request returned a backend response, whatever its
\* status, the response body has been read to the end (or the response
\* closed) by the time do_GET / do_POST returns.
C14_BackendBodyConsumed ==
    (handler.state = "returned" /\ Answered) => backend.read = "consumed"

\* C15: when the write of a chunk to the client fails during the SSE replay
\* or the passthrough (the response head got through), the handler writes
\* nothing more (no further chunk, no [DONE]), does not call the backend
\* again, and has released the backend response: its body read to the end,
\* or the response closed.
C15_DisconnectAbortsAndReleases ==
    (handler.exc = "BrokenPipeError" /\ Answered /\ Len(client) >= 1) =>
        /\ handler.state = "raised"
        /\ Positions("done") = {}
        /\ Len(outbound) = 1
        /\ backend.read = "consumed"

\* C16: the headers given to the backend call have no key other than
\* Authorization, Content-Type and Accept and no empty value. Authorization
\* is there exactly when the inbound request has a non-empty Authorization,
\* with that value; Content-Type and Accept carry the inbound value when it
\* is non-empty, and application/json and */* when the inbound header is
\* absent; no other inbound header (Cookie, Content-Length) is forwarded.
C16_ForwardedHeaders ==
    Len(outbound) >= 1 =>
        LET sent == outbound[1].headers
            inbound == request.headers
        IN  /\ DOMAIN sent \subseteq {"Authorization", "Content-Type", "Accept"}
            /\ \A k \in DOMAIN sent : sent[k] # ""
            /\ "Authorization" \in DOMAIN sent
                   <=> ("Authorization" \in DOMAIN inbound /\ inbound["Authorization"] # "")
            /\ \A k \in {"Authorization", "Content-Type", "Accept"} :
                   (k \in DOMAIN inbound /\ inbound[k] # "") =>
                       (k \in DOMAIN sent /\ sent[k] = inbound[k])
            /\ "Content-Type" \notin DOMAIN inbound =>
                   ("Content-Type" \in DOMAIN sent
                    /\ sent["Content-Type"] = "application/json")
            /\ "Accept" \notin DOMAIN inbound =>
                   ("Accept" \in DOMAIN sent /\ sent["Accept"] = "*/*")
            /\ "Cookie" \notin DOMAIN sent
            /\ "Content-Length" \notin DOMAIN sent

\* C16 witness: a request with a Cookie, an empty Authorization, its own
\* Content-Type and no Accept was forwarded, with two headers
C16_Witness ==
    /\ Len(outbound) = 1
    /\ "Cookie" \in DOMAIN request.headers
    /\ "Authorization" \in DOMAIN request.headers
    /\ request.headers["Authorization"] = ""
    /\ "Accept" \notin DOMAIN request.headers
    /\ "Content-Type" \in DOMAIN request.headers
    /\ request.headers["Content-Type"] # ""
    /\ DOMAIN outbound[1].headers = {"Content-Type", "Accept"}

-----------------------------------------------------------------------------
(* Claims about the branches and the end of the generator                  *)

\* C17: when `choices` is missing, not a list or empty, the generator yields
\* exactly two chunks: the first with delta.content = json.dumps of the whole
\* response object and finish_reason null, the second with an empty delta
\* and finish_reason "stop". When `choices` is non-empty but the first
\* message has no tool calls and its content is empty, null or absent, it
\* yields exactly one chunk, with an empty delta and finish_reason "stop".
C17_EmptyBranches ==
    /\ NoChoicesShape(response_data) =>
        /\ gen.state # "raised"
        /\ Len(yielded) <= 2
        /\ Len(yielded) >= 1 =>
            /\ yielded[1].delta.keys = {"content"}
            /\ yielded[1].delta.content.t = "json"
            /\ yielded[1].delta.content.doc = response_data
            /\ yielded[1].finish_reason = None
        /\ Len(yielded) >= 2 =>
            /\ yielded[2].delta.keys = {}
            /\ yielded[2].finish_reason = "stop"
        /\ gen.state = "done" => Len(yielded) = 2
    /\ EmptyContentShape(response_data) =>
        /\ gen.state # "raised"
        /\ Len(yielded) <= 1
        /\ Len(yielded) >= 1 =>
            /\ yielded[1].delta.keys = {}
            /\ yielded[1].finish_reason = "stop"
        /\ gen.state = "done" => Len(yielded) = 1

\* C17 witness: a response whose `choices` is an empty list was replayed to
\* the end as its two chunks
C17_Witness ==
    /\ gen.state = "done"
    /\ response_data.kind = "object"
    /\ response_data.choices = "empty"
    /\ Len(yielded) = 2
    /\ yielded[1].delta.content.doc = response_data

\* a completion with a message of empty content was replayed as one chunk
C17_WitnessEmptyContent ==
    /\ gen.state = "done"
    /\ EmptyContentShape(response_data)
    /\ response_data.content.t = "str"
    /\ Len(yielded) = 1

\* the completions the generator has a branch for
Completion(d) ==
    ToolCallShape(d) \/ ContentShape(d) \/ EmptyContentShape(d) \/ NoChoicesShape(d)

\* the number of chunks the branch taken for d yields
ChunkCount(d, size) ==
    IF ToolCallShape(d) THEN 1
    ELSE IF ContentShape(d) THEN CeilDiv(Len(d.content.s), size) + 1
    ELSE IF EmptyContentShape(d) THEN 1
    ELSE 2

\* C18: the generator always terminates. For every completion and every
\* chunk size > 0 exactly one of the tool-call, content and empty branches
\* applies; the generator never yields more than that branch's number of
\* chunks (1 for tool calls, ceil(L/C) + 1 for content, 1 or 2 for empty),
\* it is exhausted after exactly that many, an exhausted generator yields
\* nothing more, and a generator that keeps being resumed gets exhausted.
C18_EmitterTerminates ==
    /\ [](Completion(response_data) =>
            /\ streaming_chunk_size(config) > 0
            /\ Cardinality({b \in {"tool", "content", "empty"} :
                   \/ b = "tool" /\ ToolCallShape(response_data)
                   \/ b = "content" /\ ContentShape(response_data)
                   \/ b = "empty" /\ (EmptyContentShape(response_data)
                                      \/ NoChoicesShape(response_data))}) = 1
            /\ gen.state # "raised"
            /\ Len(yielded) <= ChunkCount(response_data, streaming_chunk_size(config))
            /\ gen.state = "done" =>
                   Len(yielded) = ChunkCount(response_data, streaming_chunk_size(config)))
    /\ [][gen.state = "done" => (gen' = gen /\ yielded' = yielded)]_vars
    /\ <>(Completion(response_data) => gen.state = "done")

\* C18 witness: a content of 3 characters was streamed with chunk size 1 and
\* the generator is exhausted after its 4 chunks
C18_Witness ==
    /\ gen.state = "done"
    /\ ContentShape(response_data)
    /\ Len(response_data.content.s) = 3
    /\ streaming_chunk_size(config) = 1
    /\ Len(yielded) = 4

-----------------------------------------------------------------------------
(* Claims about the exchange as a whole, checked under Spec                *)

\* the response heads (status lines) written to the client
ResponseHeads == Positions("head") \cup Positions("error")

\* C19: every GET or POST whose handler returns has had exactly one response
\* head written to the client, whatever the backend did (any status, any
\* transport failure): never none, never two.
C19_ExactlyOneResponseHead ==
    handler.state = "returned" => Cardinality(ResponseHeads) = 1

\* C20: forcing `stream` to false changes nothing else: for every POST with
\* a JSON object body, the forwarded JSON body is an object with the
\* client's fields other than `stream`, none added and none removed, the
\* outbound method is POST and the outbound URL is the configured target_url
\* (http://localhost:8000 when none is configured) followed by the inbound
\* path, unchanged.
C20_OnlyStreamChanged ==
    (Handled("POST") /\ "Content-Length" \in DOMAIN request.headers
     /\ request.body.kind = "object") =>
        /\ Len(outbound) = 1
        /\ outbound[1].json.kind = "object"
        /\ outbound[1].json.keys \ {"stream"} = request.body.keys \ {"stream"}
        /\ outbound[1].method = "POST"
        /\ outbound[1].url =
               (IF "target_url" \in config.set THEN config.target_url
                ELSE "http://localhost:8000") \o request.path

\* C20 witness: a POST carrying model, messages and stream = true was
\* forwarded with stream = false
C20_Witness ==
    /\ Handled("POST")
    /\ request.body.kind = "object"
    /\ request.body.keys = {"model", "messages", "stream"}
    /\ request.body.stream = TRUE
    /\ Len(outbound) = 1
    /\ outbound[1].json.stream = FALSE

====
